---- MODULE Spec2Model ----
(***************************************************************************)
(* A model of make_portfolio.py: extract_inner_json (the payload           *)
(* normalizer) and update_portfolio (the ledger updater).                  *)
(*                                                                         *)
(* Money is kept in integer cents, so round(x, 2) of a product of a price  *)
(* and a whole number of units is exact, and round(a / b, 2) is RoundDiv.  *)
(* Perct Change is kept in hundredths of a percent.  A float that is inf   *)
(* or nan is kept as a flag on the row (bpFinite, pctFinite).              *)
(***************************************************************************)
EXTENDS Integers, Sequences, FiniteSets, TLC

VARIABLES
    pc,       \* position in update_portfolio
    inp,      \* the files the run reads: the response record and the prior snapshot
    trades,   \* the normalized trade list (make_portfolio.py:54-78)
    df,       \* the working rows, without the Cash row
    cash,     \* the running cash balance, in cents
    i,        \* index of the next trade of the loop at make_portfolio.py:92
    out,      \* the output snapshot file: [written, rows]
    err       \* the exception that ended the run, "" when none

vars == <<pc, inp, trades, df, cash, i, out, err>>

\* The longest trade list of the inputs.
MaxTrades == 2

-----------------------------------------------------------------------------
(* Arithmetic *)

\* round(n / d, 2) on cents, d # 0: to the nearest cent, ties to even.
RoundDiv(n, d) ==
    LET nn == IF d < 0 THEN 0 - n ELSE n
        dd == IF d < 0 THEN 0 - d ELSE d
        q  == nn \div dd
        r  == nn % dd
    IN  IF 2 * r < dd THEN q
        ELSE IF 2 * r > dd THEN q + 1
        ELSE IF q % 2 = 0 THEN q ELSE q + 1

\* make_portfolio.py:97  price = round(amount / shares, 2) if shares > 0 else 0.0
Price(amount, shares) == IF shares > 0 THEN RoundDiv(amount, shares) ELSE 0

\* str.lower() on the action strings of the inputs.
Lower(s) ==
    CASE s = "BUY"  -> "buy"
      [] s = "Sell" -> "sell"
      [] OTHER      -> s

\* A division by zero either raises ZeroDivisionError (Python scalars, an
\* object-dtype column) or yields inf/nan (numpy scalars, a numeric column).
DivZeroOutcomes == {"raise", "ieee"}

-----------------------------------------------------------------------------
(* Rows *)

Row(name, bp, cp, units, total, pct) ==
    [name |-> name, bp |-> bp, cp |-> cp, units |-> units, total |-> total,
     pct |-> pct, bpFinite |-> TRUE, pctFinite |-> TRUE]

\* make_portfolio.py:147-154: the synthetic Cash row.
CashRow(c) == Row("Cash", c, c, 1, c, 0)

\* df[df["Holding Name"] == symbol].index, then idx[0]: the first match, 0 if none.
IndexOf(rows, symbol) ==
    IF \E k \in 1..Len(rows) : rows[k].name = symbol
    THEN CHOOSE k \in 1..Len(rows) :
            /\ rows[k].name = symbol
            /\ \A j \in 1..(k - 1) : rows[j].name # symbol
    ELSE 0

\* df.drop(idx[0])
DropAt(rows, k) == SubSeq(rows, 1, k - 1) \o SubSeq(rows, k + 1, Len(rows))

-----------------------------------------------------------------------------
(* extract_inner_json and the trade-list normalization *)

\* A text that holds a JSON document: form says how. "raw" is the document
\* itself, "fenced" has it between ```json and ```, "fencedGarbage" has a
\* fence around text that is no JSON, "garbage" is no JSON and has no fence,
\* "empty" is the empty string.
Forms == {"raw", "fenced", "fencedGarbage", "garbage", "empty"}

ParseOk(inner)  == [ok |-> TRUE, err |-> "", inner |-> inner]
ParseErr(e, inner) == [ok |-> FALSE, err |-> e, inner |-> inner]

\* extract_inner_json with its branches in the order of spec.md 4.1: `text`
\* first, `choices[0].message.content` second.
ExtractTextFirst(data) ==
    IF data.hasText
    THEN IF data.text.form \in {"fenced", "raw"}
         THEN ParseOk(data.text.inner)
         ELSE ParseErr("JSONDecodeError", data.text.inner)
    ELSE IF data.hasChoices /\ data.content.form # "empty"
    THEN IF data.content.form \in {"raw", "fenced"}
         THEN ParseOk(data.content.inner)
         ELSE ParseErr("JSONDecodeError", data.content.inner)
    ELSE ParseErr("ValueError", data.text.inner)

\* make_portfolio.py:7-32
ExtractInnerJson(data) ==
    IF data.hasChoices /\ data.content.form # "empty"
    THEN \* json.loads(content); on JSONDecodeError the fenced body, else re-raise
         IF data.content.form = "raw" THEN ParseOk(data.content.inner)
         ELSE IF data.content.form = "fenced" THEN ParseOk(data.content.inner)
         ELSE ParseErr("JSONDecodeError", data.content.inner)
    ELSE IF data.hasText
    THEN \* the fenced body when there is a fence, else json.loads(text)
         IF data.text.form = "fenced" THEN ParseOk(data.text.inner)
         ELSE IF data.text.form = "fencedGarbage"
              THEN ParseErr("JSONDecodeError", data.text.inner)
         ELSE IF data.text.form = "raw" THEN ParseOk(data.text.inner)
         ELSE ParseErr("JSONDecodeError", data.text.inner)
    ELSE ParseErr("ValueError", data.text.inner)

\* make_portfolio.py:62-68: one emergency_trades entry, canonical.
FromEmergency(t) ==
    [symbol |-> t.symbol, action |-> Lower(t.action),
     shares |-> IF t.hasQuantity THEN t.quantity ELSE 0,
     amount |-> t.price * (IF t.hasQuantity THEN t.quantity ELSE 0),
     ok |-> TRUE]

\* make_portfolio.py:70-76: one top_signals entry, canonical.
FromTopSignal(t) ==
    [symbol |-> t.symbol, action |-> "buy", shares |-> 1, amount |-> t.price,
     ok |-> TRUE]

\* make_portfolio.py:54-78: [ok, err, trades].  An entry of emergency_trades
\* or top_signals that lacks a key (ok = FALSE) raises KeyError here; an entry
\* of `trades` is taken as it is and raises when the loop reads it.
NormalizeTrades(inner) ==
    IF inner.hasTrades
    THEN [ok |-> TRUE, err |-> "", trades |-> inner.trades]
    ELSE IF inner.hasEmergency \/ inner.hasTop
    THEN LET es == IF inner.hasEmergency THEN inner.emergency ELSE <<>>
             ts == IF inner.hasTop THEN inner.top ELSE <<>>
         IN  IF \/ \E k \in 1..Len(es) : ~es[k].ok
                \/ \E k \in 1..Len(ts) : ~ts[k].ok
             THEN [ok |-> FALSE, err |-> "KeyError", trades |-> <<>>]
             ELSE [ok |-> TRUE, err |-> "",
                   trades |-> [k \in 1..Len(es) |-> FromEmergency(es[k])]
                              \o [k \in 1..Len(ts) |-> FromTopSignal(ts[k])]]
    ELSE [ok |-> FALSE, err |-> "ValueError", trades |-> <<>>]

-----------------------------------------------------------------------------
(* update_portfolio: the cash seed and the trades *)

\* The cash row's name matched in any casing, as spec.md 4.2 has it.
IsCashNameAnyCase(name) == name \in {"Cash", "cash", "CASH"}

\* make_portfolio.py:84, 89: df["Holding Name"] == "Cash"
IsCashName(name) == name = "Cash"

RECURSIVE WithoutCash(_)
WithoutCash(rows) ==
    IF rows = <<>> THEN <<>>
    ELSE IF IsCashName(Head(rows).name) THEN WithoutCash(Tail(rows))
    ELSE <<Head(rows)>> \o WithoutCash(Tail(rows))

\* make_portfolio.py:84-89: [cash, df]
SeedCash(prior) ==
    IF \E k \in 1..Len(prior) : IsCashName(prior[k].name)
    THEN LET k == CHOOSE k \in 1..Len(prior) :
                    /\ IsCashName(prior[k].name)
                    /\ \A j \in 1..(k - 1) : ~IsCashName(prior[j].name)
         IN  [cash |-> prior[k].total, df |-> WithoutCash(prior)]
    ELSE [cash |-> 0, df |-> prior]

Result(rows, c, e) == [df |-> rows, cash |-> c, err |-> e]

\* A remove that deletes the matching row, as spec.md 4.2 has it.
ApplyRemoveDeleting(rows, c, t) ==
    LET k == IndexOf(rows, t.symbol)
    IN  {Result(IF k = 0 THEN rows ELSE DropAt(rows, k), c, "")}

\* make_portfolio.py:99-100
ApplyRemove(rows, c, t) == {Result(rows, c, "")}

\* make_portfolio.py:113-114 and 132-133: Perct Change of the row at k, from
\* its buying price as the lines before left it.  (price - inf) / inf and
\* anything with nan are nan; a buying price of 0 divides by zero.
RowPct(upd, k, price, c2) ==
    IF ~upd[k].bpFinite
    THEN {Result([upd EXCEPT ![k].pct = 0, ![k].pctFinite = FALSE], c2, "")}
    ELSE IF upd[k].bp = 0
    THEN {IF o = "raise"
          THEN Result(upd, c2, "ZeroDivisionError")
          ELSE Result([upd EXCEPT ![k].pct = 0, ![k].pctFinite = FALSE], c2, "")
          : o \in DivZeroOutcomes}
    ELSE {Result([upd EXCEPT
                    ![k].pct = RoundDiv((price - upd[k].bp) * 10000, upd[k].bp),
                    ![k].pctFinite = TRUE], c2, "")}

\* A sell of a held symbol that keeps the row at every unit count.
SellHeldNoClamp(rows, c2, k, t) ==
    LET price == Price(t.amount, t.shares)
        new_units == rows[k].units - t.shares
    IN  RowPct([rows EXCEPT ![k].units = new_units, ![k].cp = price,
                            ![k].total = price * new_units], k, price, c2)

\* A sell of a held symbol that values the row at the units held before.
SellHeldOldUnits(rows, c2, k, t) ==
    LET price == Price(t.amount, t.shares)
        new_units == rows[k].units - t.shares
    IN  IF new_units > 0
        THEN RowPct([rows EXCEPT ![k].units = new_units, ![k].cp = price,
                                 ![k].total = price * rows[k].units],
                    k, price, c2)
        ELSE {Result(DropAt(rows, k), c2, "")}

\* make_portfolio.py:106-116: the sell of a symbol whose row is at k.
SellHeld(rows, c2, k, t) ==
    LET price == Price(t.amount, t.shares)
        new_units == rows[k].units - t.shares
    IN  IF new_units > 0
        THEN RowPct([rows EXCEPT ![k].units = new_units, ![k].cp = price,
                                 ![k].total = price * new_units],
                    k, price, c2)
        ELSE {Result(DropAt(rows, k), c2, "")}

\* A sell that credits cash only when the symbol is held.
ApplySellHeldOnly(rows, c, t) ==
    LET k == IndexOf(rows, t.symbol)
    IN  IF k = 0 THEN {Result(rows, c, "")}
        ELSE SellHeld(rows, c + t.amount, k, t)

\* make_portfolio.py:102-116
ApplySell(rows, c, t) ==
    LET c2 == c + t.amount
        k  == IndexOf(rows, t.symbol)
    IN  IF k = 0 THEN {Result(rows, c2, "")}
        ELSE SellHeld(rows, c2, k, t)

\* A cost basis that averages the two prices without their weights.
NewBuyUnweighted(old_buy, old_units, amount, shares) ==
    RoundDiv(old_buy + Price(amount, shares), 2)

\* make_portfolio.py:124-127, for a finite old_buy and new_units # 0
NewBuy(old_buy, old_units, amount, shares) ==
    RoundDiv(old_buy * old_units + amount, old_units + shares)

\* make_portfolio.py:118-143
ApplyBuy(rows, c, t) ==
    LET price == Price(t.amount, t.shares)
        c2    == c - t.amount
        k     == IndexOf(rows, t.symbol)
    IN  IF k = 0
        THEN {Result(Append(rows, Row(t.symbol, price, price, t.shares,
                                      t.amount, 0)), c2, "")}
        ELSE
        LET old_units == rows[k].units
            new_units == old_units + t.shares
            set(b, fin) == [rows EXCEPT ![k].bp = b, ![k].bpFinite = fin,
                                        ![k].cp = price,
                                        ![k].units = new_units,
                                        ![k].total = price * new_units]
        IN  IF new_units = 0
            THEN UNION {IF o = "raise"
                        THEN {Result(rows, c2, "ZeroDivisionError")}
                        ELSE RowPct(set(0, FALSE), k, price, c2)
                        : o \in DivZeroOutcomes}
            ELSE IF ~rows[k].bpFinite
            THEN RowPct(set(0, FALSE), k, price, c2)
            ELSE RowPct(set(NewBuy(rows[k].bp, old_units, t.amount, t.shares),
                            TRUE), k, price, c2)

\* make_portfolio.py:92-143, one iteration: the set of [df, cash, err] it can
\* leave.  An entry that lacks a key raises KeyError at lines 93-96.
ApplyTrade(rows, c, t) ==
    IF ~t.ok THEN {Result(rows, c, "KeyError")}
    ELSE LET action == Lower(t.action)
         IN  IF action = "remove" THEN ApplyRemove(rows, c, t)
             ELSE IF action = "sell" THEN ApplySell(rows, c, t)
             ELSE IF action = "buy" THEN ApplyBuy(rows, c, t)
             ELSE {Result(rows, c, "")}

\* make_portfolio.py:145-159: the rows written.  Every money column is whole
\* cents here, so the rounding pass of lines 158-159 changes nothing.
FinalRows(rows, c) == Append(rows, CashRow(c))

-----------------------------------------------------------------------------
(* The inputs of a run *)

T(sym, act, sh, am) ==
    [symbol |-> sym, action |-> act, shares |-> sh, amount |-> am, ok |-> TRUE]

\* A `trades` entry without its "shares" key.
Malformed ==
    [symbol |-> "AAPL", action |-> "buy", shares |-> 0, amount |-> 0, ok |-> FALSE]

ShareCounts == {0, 3, 10}
Amounts     == {0, 10000, 12000}

TradeSet ==
    {T(y, a, s, m) : y \in {"AAPL", "Cash"}, a \in {"buy", "sell"},
                     s \in ShareCounts, m \in Amounts}
    \cup {T("AAPL", "remove", 0, 0), T("AAPL", "hold", 0, 0),
          T("AAPL", "BUY", 10, 12000), T("AAPL", "Sell", 3, 10000),
          Malformed}

TradeLists == UNION {[1..n -> TradeSet] : n \in 0..MaxTrades}

AAPL == Row("AAPL", 1000, 1000, 10, 10000, 0)
MSFT == Row("MSFT", 2000, 2500, 5, 12500, 2500)

\* Prior snapshots: a header-only file, snapshots as the program writes them,
\* and a hand-made one whose cash row is named "cash".
Priors ==
    {<<>>,
     <<AAPL, CashRow(50000)>>,
     <<MSFT, CashRow(12345)>>,
     <<MSFT, AAPL, Row("cash", 50000, 50000, 1, 50000, 0)>>}

Inner(ht, tr, he, em, hs, top) ==
    [hasTrades |-> ht, trades |-> tr, hasEmergency |-> he, emergency |-> em,
     hasTop |-> hs, top |-> top]

NoInner == Inner(FALSE, <<>>, FALSE, <<>>, FALSE, <<>>)

Doc(form, inner) == [form |-> form, inner |-> inner]

Payload(hc, content, ht, text) ==
    [hasChoices |-> hc, content |-> content, hasText |-> ht, text |-> text]

Input(je, ce, oo, data, prior) ==
    [jsonExists |-> je, csvExists |-> ce, outerOk |-> oo, payload |-> data,
     prior |-> prior]

Emergency(sym, act, hq, q, pr, ok) ==
    [symbol |-> sym, action |-> act, hasQuantity |-> hq, quantity |-> q,
     price |-> pr, ok |-> ok]

TopSignal(sym, pr, ok) == [symbol |-> sym, price |-> pr, ok |-> ok]

Emergencies ==
    <<Emergency("AAPL", "SELL", TRUE, 3, 1500, TRUE),
      Emergency("MSFT", "sell", FALSE, 0, 2500, TRUE)>>

TopSignals == <<TopSignal("NVDA", 2000, TRUE)>>

\* The inner objects of the payload-shape inputs.
InnerObjects ==
    {Inner(TRUE, <<T("AAPL", "buy", 10, 12000)>>, FALSE, <<>>, FALSE, <<>>),
     Inner(TRUE, <<T("AAPL", "buy", 10, 12000)>>, TRUE, Emergencies, FALSE, <<>>),
     Inner(FALSE, <<>>, TRUE, Emergencies, TRUE, TopSignals),
     Inner(FALSE, <<>>, TRUE, Emergencies, FALSE, <<>>),
     Inner(FALSE, <<>>, FALSE, <<>>, TRUE, TopSignals),
     Inner(FALSE, <<>>, FALSE, <<>>, TRUE, <<TopSignal("NVDA", 0, FALSE)>>),
     NoInner}

\* The inner object of `choices[0].message.content` in the payload-shape inputs.
ChoicesInner == Inner(TRUE, <<T("AAPL", "sell", 3, 10000)>>, FALSE, <<>>, FALSE, <<>>)

\* Runs over every trade list: the response is a `text` field with raw JSON.
LedgerInputs ==
    {Input(TRUE, TRUE, TRUE,
           Payload(FALSE, Doc("empty", NoInner), TRUE,
                   Doc("raw", Inner(TRUE, tl, FALSE, <<>>, FALSE, <<>>))),
           prior) : tl \in TradeLists, prior \in Priors}

\* Runs over every payload shape.
PayloadInputs ==
    {Input(TRUE, TRUE, TRUE,
           Payload(hc, Doc(cf, ChoicesInner), ht, Doc(tf, inner)),
           <<AAPL, CashRow(50000)>>) :
        hc \in BOOLEAN, cf \in Forms, ht \in BOOLEAN, tf \in Forms,
        inner \in InnerObjects}

\* Runs with a file missing or a response file that is no JSON.
FileInputs ==
    {Input(je, ce, oo,
           Payload(FALSE, Doc("empty", NoInner), TRUE,
                   Doc("raw", Inner(TRUE, <<T("AAPL", "buy", 10, 12000)>>,
                                    FALSE, <<>>, FALSE, <<>>))),
           <<AAPL, CashRow(50000)>>) : je \in BOOLEAN, ce \in BOOLEAN, oo \in BOOLEAN}

Inputs == LedgerInputs \cup PayloadInputs \cup FileInputs

-----------------------------------------------------------------------------
(* update_portfolio as a state machine *)

NotWritten == [written |-> FALSE, rows |-> <<>>]

Init ==
    /\ pc = "start"
    /\ inp \in Inputs
    /\ trades = <<>>
    /\ df = <<>>
    /\ cash = 0
    /\ i = 1
    /\ out = NotWritten
    /\ err = ""

Raise(e) ==
    /\ pc' = "error"
    /\ err' = e

\* make_portfolio.py:41-44
CheckFiles ==
    /\ pc = "start"
    /\ IF ~inp.jsonExists \/ ~inp.csvExists
       THEN Raise("FileNotFoundError")
       ELSE pc' = "parse" /\ err' = err
    /\ UNCHANGED <<inp, trades, df, cash, i, out>>

\* make_portfolio.py:46-78
ParseResponse ==
    /\ pc = "parse"
    /\ IF ~inp.outerOk
       THEN Raise("JSONDecodeError") /\ trades' = trades
       ELSE LET e == ExtractInnerJson(inp.payload)
                n == NormalizeTrades(e.inner)
            IN  IF ~e.ok THEN Raise(e.err) /\ trades' = trades
                ELSE IF ~n.ok THEN Raise(n.err) /\ trades' = trades
                ELSE pc' = "load" /\ err' = err /\ trades' = n.trades
    /\ UNCHANGED <<inp, df, cash, i, out>>

\* make_portfolio.py:81-89
LoadSnapshot ==
    /\ pc = "load"
    /\ df' = SeedCash(inp.prior).df
    /\ cash' = SeedCash(inp.prior).cash
    /\ i' = 1
    /\ pc' = "trades"
    /\ UNCHANGED <<inp, trades, out, err>>

\* make_portfolio.py:92-143, one iteration of the loop
ApplyNext ==
    /\ pc = "trades"
    /\ i <= Len(trades)
    /\ \E r \in ApplyTrade(df, cash, trades[i]) :
          /\ df' = r.df
          /\ cash' = r.cash
          /\ IF r.err # ""
             THEN Raise(r.err) /\ i' = i
             ELSE pc' = pc /\ err' = err /\ i' = i + 1
    /\ UNCHANGED <<inp, trades, out>>

\* The guard of a to_csv placed inside the loop: reached while trades remain.
LoopRunning == pc = "trades"

\* make_portfolio.py:92, 161: to_csv follows the loop, so it is reached once
\* every trade has been applied without an exception.
LoopFinished == pc = "trades" /\ i > Len(trades)

\* make_portfolio.py:145-162
WriteOutput ==
    /\ LoopFinished
    /\ out' = [written |-> TRUE, rows |-> FinalRows(df, cash)]
    /\ pc' = IF i > Len(trades) THEN "done" ELSE pc
    /\ UNCHANGED <<inp, trades, df, cash, i, err>>

Next ==
    \/ CheckFiles
    \/ ParseResponse
    \/ LoadSnapshot
    \/ ApplyNext
    \/ WriteOutput

Spec == Init /\ [][Next]_vars

-----------------------------------------------------------------------------
(* The claims *)

\* The trade the loop is about to apply.
AtTrade == pc = "trades" /\ i <= Len(trades)
Cur == trades[i]
CurIs(action) == AtTrade /\ Cur.ok /\ Lower(Cur.action) = action

HasRow(rows, name) == \E k \in 1..Len(rows) : rows[k].name = name
RowOf(rows, name) == rows[CHOOSE k \in 1..Len(rows) : rows[k].name = name]
LastRow(rows) == rows[Len(rows)]

\* The cash a trade list moves: minus every buy amount, plus every sell amount.
RECURSIVE NetCash(_)
NetCash(ts) ==
    IF ts = <<>> THEN 0
    ELSE (IF Lower(Head(ts).action) = "buy" THEN 0 - Head(ts).amount
          ELSE IF Lower(Head(ts).action) = "sell" THEN Head(ts).amount
          ELSE 0) + NetCash(Tail(ts))

NoRemove(ts) == \A k \in 1..Len(ts) : Lower(ts[k].action) # "remove"

PriorCash(prior) == IF HasRow(prior, "Cash") THEN RowOf(prior, "Cash").total ELSE 0

\* C1: when the trade list has no remove, the Total Amount of the Cash row
\* written last to the output is the prior snapshot's Cash Total Amount (0
\* without a Cash row) minus the buy amounts plus the sell amounts, whether
\* or not the symbols are held and in any order.
C1_CashConservation ==
    (pc = "done" /\ NoRemove(trades)) =>
        LastRow(out.rows).total = PriorCash(inp.prior) + NetCash(trades)

\* C1 witness: a sell of a symbol that is not held, then a buy, on a header-only
\* snapshot, written out.
C1_Witness ==
    /\ pc = "done"
    /\ inp.prior = <<>>
    /\ trades = <<T("AAPL", "sell", 3, 10000), T("AAPL", "buy", 10, 12000)>>
    /\ LastRow(out.rows).total = 0 - 2000

\* C2 as stated: a row whose symbol a remove names, with no later buy of that
\* symbol, is absent from the output snapshot.
C2_RemovedRowAbsent ==
    pc = "done" =>
        \A j \in 1..Len(trades) :
            (/\ Lower(trades[j].action) = "remove"
             /\ \A m \in (j + 1)..Len(trades) :
                    ~(Lower(trades[m].action) = "buy"
                      /\ trades[m].symbol = trades[j].symbol))
            => ~HasRow(out.rows, trades[j].symbol)

\* C2 amended: a remove is skipped: it leaves every holding row and the cash
\* balance as they were, raises nothing, and the loop goes on to the next
\* trade, whether or not a row matches its symbol.
C2_RemoveIsSkipped ==
    [][CurIs("remove") =>
        (df' = df /\ cash' = cash /\ pc' = "trades" /\ i' = i + 1)]_vars

\* C2 witness: a held symbol was named by a remove and its row is in the output.
C2_Witness ==
    /\ pc = "done"
    /\ trades = <<T("AAPL", "remove", 0, 0)>>
    /\ HasRow(inp.prior, "AAPL")
    /\ HasRow(out.rows, "AAPL")

UnitsNonNegative(rows) == \A k \in 1..Len(rows) : rows[k].units >= 0

\* C3: a sell of at least the units held removes the row, credits the whole
\* amount to cash and raises nothing; and no row of the working set or of the
\* output has a negative Number of Units.
C3_OversellClamp ==
    /\ [](UnitsNonNegative(df) /\ UnitsNonNegative(out.rows))
    /\ [][(/\ CurIs("sell")
           /\ HasRow(df, Cur.symbol)
           /\ Cur.shares >= RowOf(df, Cur.symbol).units)
          => (/\ ~HasRow(df', Cur.symbol)
              /\ Len(df') = Len(df) - 1
              /\ cash' = cash + Cur.amount
              /\ pc' = "trades"
              /\ err' = "")]_vars

\* C3 witness: 10 units held, 3 sold, then 10 sold of the 7 left: the row is
\* gone and both amounts are in cash.
C3_Witness ==
    /\ pc = "done"
    /\ inp.prior = <<AAPL, CashRow(50000)>>
    /\ trades = <<T("AAPL", "sell", 3, 10000), T("AAPL", "sell", 10, 12000)>>
    /\ out.rows = <<CashRow(72000)>>

\* The buy of C4: the symbol has a row with a finite buying price, and the
\* units after the buy are positive.
C4_BuyOfHeld ==
    /\ CurIs("buy")
    /\ HasRow(df, Cur.symbol)
    /\ RowOf(df, Cur.symbol).bpFinite
    /\ RowOf(df, Cur.symbol).units + Cur.shares > 0

C4_RowAfter(currentPriceOk) ==
    LET old == RowOf(df, Cur.symbol)
        new == RowOf(df', Cur.symbol)
        cp  == new.cp
    IN  /\ cash' = cash - Cur.amount
        /\ pc' # "error" =>
            /\ HasRow(df', Cur.symbol)
            /\ new.units = old.units + Cur.shares
            /\ new.bpFinite
            /\ new.bp = RoundDiv(old.bp * old.units + Cur.amount,
                                 old.units + Cur.shares)
            /\ currentPriceOk
            /\ new.total = cp * (old.units + Cur.shares)

C5_BothFields ==
    /\ inp.jsonExists /\ inp.csvExists /\ inp.outerOk
    /\ inp.payload.hasText
    /\ inp.payload.hasChoices
    /\ inp.payload.content.form # "empty"

C5_NeitherField ==
    /\ inp.jsonExists /\ inp.csvExists /\ inp.outerOk
    /\ ~inp.payload.hasText
    /\ ~inp.payload.hasChoices

C5_NeitherFails ==
    C5_NeitherField =>
        /\ pc \in {"start", "parse", "error"}
        /\ pc = "error" => err = "ValueError"

\* What the run does when the inner object is the one of document `doc`: it
\* fails in parsing or normalizing when the document or its trade data are
\* bad, and otherwise goes on with the document's trade list.
C5_TakenFrom(doc) ==
    IF doc.form \in {"raw", "fenced"} /\ NormalizeTrades(doc.inner).ok
    THEN pc \notin {"start", "parse"} =>
            /\ trades = NormalizeTrades(doc.inner).trades
            /\ err \notin {"JSONDecodeError", "ValueError"}
    ELSE /\ pc \in {"start", "parse", "error"}
         /\ pc = "error" =>
               err = (IF doc.form \in {"raw", "fenced"}
                      THEN NormalizeTrades(doc.inner).err
                      ELSE "JSONDecodeError")

\* C5 as stated: with both fields the inner object, and so the trade list,
\* comes from `text`; with neither the run fails as an unrecognized payload.
C5_TextFirstAsStated ==
    /\ C5_BothFields => C5_TakenFrom(inp.payload.text)
    /\ C5_NeitherFails

\* C5 amended: `choices[0].message.content` is tried first and `text` second:
\* with both fields, and the content not empty, the inner object and the
\* trade list come from the content, and `text` is not read even when the
\* content fails to parse; `text` is used when `choices` is absent or its
\* content empty; with neither field the run fails as an unrecognized payload.
C5_ChoicesFirst ==
    /\ C5_BothFields => C5_TakenFrom(inp.payload.content)
    /\ (/\ inp.jsonExists /\ inp.csvExists /\ inp.outerOk
        /\ inp.payload.hasText
        /\ ~(inp.payload.hasChoices /\ inp.payload.content.form # "empty"))
       => C5_TakenFrom(inp.payload.text)
    /\ C5_NeitherFails

\* C5 witness: both fields hold a JSON document, and the trade list is the one
\* of the content, which is not the one of the text.
C5_Witness ==
    /\ pc = "load"
    /\ C5_BothFields
    /\ inp.payload.text.form = "raw"
    /\ inp.payload.text.inner.hasTrades
    /\ trades = ChoicesInner.trades
    /\ trades # inp.payload.text.inner.trades

\* The state LoadSnapshot leaves, before the first trade.
C6_Seeded == pc = "trades" /\ i = 1

\* C6 as stated: a row named Cash in any casing seeds the balance and leaves
\* the working set; the balance is 0 only without such a row.
C6_CashRowAnyCaseAsStated ==
    C6_Seeded =>
        IF \E k \in 1..Len(inp.prior) : IsCashNameAnyCase(inp.prior[k].name)
        THEN /\ \E k \in 1..Len(inp.prior) :
                   /\ IsCashNameAnyCase(inp.prior[k].name)
                   /\ cash = inp.prior[k].total
             /\ \A k \in 1..Len(df) : ~IsCashNameAnyCase(df[k].name)
        ELSE cash = 0 /\ df = inp.prior

\* C6 amended: the cash row is identified by the exact name "Cash": that row's
\* Total Amount seeds the balance and the row leaves the working set; a row
\* named "cash" in another casing stays in the working set as a holding, and
\* the balance starts at 0 whenever no row is named exactly "Cash".
C6_CashRowExactName ==
    C6_Seeded =>
        IF \E k \in 1..Len(inp.prior) : inp.prior[k].name = "Cash"
        THEN /\ \E k \in 1..Len(inp.prior) :
                   /\ inp.prior[k].name = "Cash"
                   /\ cash = inp.prior[k].total
             /\ \A k \in 1..Len(df) : df[k].name # "Cash"
             /\ Len(df) = Len(inp.prior) - 1
        ELSE cash = 0 /\ df = inp.prior

\* C6 witness: the prior snapshot's cash row is named "cash": the balance
\* starts at 0 and the row is a holding of the working set.
C6_Witness ==
    /\ C6_Seeded
    /\ HasRow(inp.prior, "cash")
    /\ RowOf(inp.prior, "cash").total = 50000
    /\ cash = 0
    /\ HasRow(df, "cash")

\* C7: the output has at most one row per Holding Name and exactly one Cash
\* row, the last one, with Number of Units 1, Buying Price = Current Price =
\* Total Amount and Perct Change 0.
C7_SnapshotUniqueness ==
    out.written =>
        LET rows == out.rows
            last == LastRow(rows)
        IN  /\ \A a, b \in 1..Len(rows) : rows[a].name = rows[b].name => a = b
            /\ Cardinality({k \in 1..Len(rows) : rows[k].name = "Cash"}) = 1
            /\ last.name = "Cash"
            /\ last.units = 1
            /\ last.bp = last.total /\ last.cp = last.total
            /\ last.pct = 0

\* C8: a run that ends in an error leaves the output file as it was; the
\* output is written only once every trade of the list has been applied.
C8_AllOrNothingWrite ==
    /\ pc = "error" => out = NotWritten
    /\ out.written => (pc = "done" /\ i = Len(trades) + 1)

\* C8 witness: the second trade of the list cannot be processed, after the
\* first one has changed the working set and the balance; nothing is written.
C8_Witness ==
    /\ pc = "error"
    /\ err = "KeyError"
    /\ i = 2
    /\ cash # SeedCash(inp.prior).cash
    /\ df # SeedCash(inp.prior).df
    /\ out = NotWritten

\* C9: a buy of a held symbol that leaves 0 units ends the run in an error,
\* and no output is written.
C9_ZeroUnitBuyRejected ==
    [][(/\ CurIs("buy")
        /\ HasRow(df, Cur.symbol)
        /\ RowOf(df, Cur.symbol).units + Cur.shares = 0)
       => (pc' = "error" /\ out' = NotWritten)]_vars

Touched(name) ==
    \E j \in 1..Len(trades) :
        /\ Lower(trades[j].action) \in {"buy", "sell"}
        /\ trades[j].symbol = name

\* C10 as stated, on the rows that hold units (every row a buy of shares > 0
\* created is one): in the output every such row other than Cash that a buy
\* or a sell touched has Total Amount = round(Current Price * Number of
\* Units, 2).
C10_DerivedTotalAsStated ==
    pc = "done" =>
        \A k \in 1..Len(out.rows) :
            (/\ out.rows[k].name # "Cash"
             /\ Touched(out.rows[k].name)
             /\ out.rows[k].units > 0)
            => out.rows[k].total = out.rows[k].cp * out.rows[k].units

\* C10 amended: a row that a sell or a buy updates in place has Total Amount =
\* round(Current Price * Number of Units, 2) afterwards; a row newly created
\* by a buy of `shares` for `amount` has Current Price = round(amount /
\* shares, 2) (0.0 when shares = 0) and Total Amount = amount, which is
\* round(Current Price * Number of Units, 2) only when round(amount / shares,
\* 2) * shares = amount: not for shares = 3, amount = 100.00, where Current
\* Price * Number of Units is 99.99.
C10_DerivedTotal ==
    [][((CurIs("buy") \/ CurIs("sell")) /\ pc' # "error") =>
        IF HasRow(df, Cur.symbol)
        THEN HasRow(df', Cur.symbol) =>
                RowOf(df', Cur.symbol).total =
                    RowOf(df', Cur.symbol).cp * RowOf(df', Cur.symbol).units
        ELSE CurIs("buy") =>
                /\ HasRow(df', Cur.symbol)
                /\ RowOf(df', Cur.symbol).units = Cur.shares
                /\ RowOf(df', Cur.symbol).cp =
                     (IF Cur.shares > 0
                      THEN RoundDiv(Cur.amount, Cur.shares) ELSE 0)
                /\ RowOf(df', Cur.symbol).total = Cur.amount]_vars

\* C10 witness: 3 shares bought for 100.00 of a symbol that is not held: the
\* new row is worth 100.00 at 3 units of 33.33.
C10_Witness ==
    /\ pc = "done"
    /\ inp.prior = <<>>
    /\ trades = <<T("AAPL", "buy", 3, 10000)>>
    /\ out.rows[1].cp = 3333
    /\ out.rows[1].units = 3
    /\ out.rows[1].total = 10000

====
